---- MODULE Spec2Model ----
(***************************************************************************)
(* Model of the FMR validation client of src/utils.py:                     *)
(*   validate_data_fmr -> get_validation_status ->                         *)
(*   __validation_status_request -> __handle_status.                       *)
(* One call of validate_data_fmr is followed from its entry to its return  *)
(* or its exception.  The server (upload and status responses) and the     *)
(* wall clock read by time() are the environment.                          *)
(***************************************************************************)
EXTENDS Integers, Sequences, FiniteSets, TLC

\* ------------------------------------------------------------------ bounds
\* largest max_retries a caller passes
MaxRetries == 3
\* positive interval_time values are Eps + 1 .. Eps + MaxInterval clock units
MaxInterval == 1
\* largest advance of the clock between two passes of the wait loop
MaxJump == 1
\* longest ValidationReport the server sends
MaxReport == 2
\* the most the clock advances across adjacent statements (no blocking call)
Eps == 1

\* ------------------------------------------------- constants of src/utils.py
STATUS_IN_PROCESS == {"Initialising", "Analysing", "Validating", "Consolidating"}

STATUS_ERRORS == {"IncorrectDSD", "InvalidRef", "MissingDSD", "Error"}

STATUS_COMPLETED == {"Complete"}

ValidDelimiters == {"comma", "semicolon", "tab", "space"}

DefaultPort == 8080

HttpsPort == 443

HttpOk == 200

\* ------------------------------------------------------- inputs of one call
Delimiters == ValidDelimiters \cup {"pipe"}

Ports == {DefaultPort, 9000}

RetryValues == 0..MaxRetries

\* sleep() rejects a negative length; 0 is accepted; the positive values are
\* longer than the clock drift Eps between adjacent statements
IntervalValues == {-1, 0} \cup {Eps + k : k \in 1..MaxInterval}

\* time a blocking HTTP round trip may take, and the time sleep() may overrun,
\* in clock units
Latencies == {0, 1}

\* ------------------------------------------------------------ the server
Findings == {"f1", "f2"}

Reports == UNION {[1..n -> Findings] : n \in 0..MaxReport}

\* a status response body: json() of the GET on /ws/public/data/loadStatus
NoStatusResponse ==
    [hasStatus |-> FALSE, Status |-> "", Errors |-> FALSE, ValidationReport |-> <<>>]

LabelResponse(l) ==
    [hasStatus |-> TRUE, Status |-> l, Errors |-> FALSE, ValidationReport |-> <<>>]

CompleteResponse(e, r) ==
    [hasStatus |-> TRUE, Status |-> "Complete", Errors |-> e, ValidationReport |-> r]

StatusResponses ==
    {NoStatusResponse}
    \cup {LabelResponse(l) : l \in STATUS_IN_PROCESS \cup STATUS_ERRORS \cup {"Unknown"}}
    \cup {CompleteResponse(e, r) : e \in BOOLEAN, r \in Reports}

\* an upload response: status_code, text and json() of the POST
UploadResponses ==
    [status_code : {HttpOk}, text : {"accepted"}, hasUid : BOOLEAN, uid : {"abc123"}]
    \cup [status_code : {404, 500}, text : {"not found", "server error"},
          hasUid : BOOLEAN, uid : {"abc123"}]

NoUpload == [status_code |-> 0, text |-> "", hasUid |-> FALSE, uid |-> ""]

\* ------------------------------------------------------- results of a call
\* Python values a call returns: a list, or None
PyList(items) == [tag |-> "list", items |-> items]

PyNone == [tag |-> "None", items |-> <<>>]

Running ==
    [kind |-> "running", exc |-> "", value |-> PyNone, text |-> "", code |-> 0,
     json |-> NoStatusResponse, num |-> 0]

Returned(v) == [Running EXCEPT !.kind = "returned", !.value = v]

Raised(e) == [Running EXCEPT !.kind = "raised", !.exc = e]

\* raise Exception(response.text, response.status_code)
RaisedUpload(t, c) == [Raised("UploadRejected") EXCEPT !.text = t, !.code = c]

\* raise Exception(response_status.json())
RaisedJson(j) == [Raised("RemoteError") EXCEPT !.json = j]

\* raise Exception(f"... {n} ...")
RaisedNum(e, n) == [Raised(e) EXCEPT !.num = n]

VARIABLES
    pc,               \* position in the call: the source line about to run
    delimiter, use_https, port, max_retries, interval_time,   \* arguments
    base_url,         \* [scheme, host, port]
    response,         \* the upload response
    uid,
    response_status,  \* the last status response
    start_global, start, current, interval, interval_counter, timeout,
    now,              \* the wall clock
    log,              \* the HTTP requests issued, in order
    obs,              \* the status responses received, in order
    outcome,          \* how the call ended
    returned,         \* the time each request of log returned, in order
    host, requested_port,             \* arguments, as the caller passed them
    logs_folder, written, sv_outcome  \* structural_validation, the caller

args == <<delimiter, use_https, port, max_retries, interval_time>>

locals == <<base_url, response, uid, response_status>>

timers == <<start_global, start, current, interval, interval_counter, timeout>>

caller == <<host, requested_port, logs_folder, written, sv_outcome>>

vars == <<pc, args, locals, timers, now, log, obs, outcome, returned, caller>>

Host == "localhost"

\* the state of the call that does not depend on its arguments
InitCall ==
    /\ pc = "L200"
    /\ requested_port = port
    /\ base_url = [scheme |-> "", host |-> "", port |-> 0]
    /\ response = NoUpload
    /\ uid = ""
    /\ response_status = NoStatusResponse
    /\ start_global = 0 /\ start = 0 /\ current = 0
    /\ interval = 0 /\ interval_counter = 0 /\ timeout = 0
    /\ now = 0
    /\ log = <<>>
    /\ obs = <<>>
    /\ returned = <<>>
    /\ outcome = Running
    /\ written = <<>>
    /\ sv_outcome = Running

\* a direct call of validate_data_fmr, host left at its default
Init ==
    /\ delimiter \in Delimiters
    /\ use_https \in BOOLEAN
    /\ port \in Ports
    /\ max_retries \in RetryValues
    /\ interval_time \in IntervalValues
    /\ host = Host
    /\ logs_folder = FALSE
    /\ InitCall

Finish(o) == pc' = "done" /\ outcome' = o

UploadUrl(b) == [base |-> b, path |-> "/ws/public/data/load"]

StatusUrl(b) == [base |-> b, path |-> "/ws/public/data/loadStatus"]

PostRequest(url, d, t) ==
    [method |-> "POST", url |-> url, uid |-> "", header |-> d, at |-> t]

\* a status GET that forgets the uid parameter
GetRequest_NoUid(url, u, t) ==
    [method |-> "GET", url |-> url, uid |-> "", header |-> "", at |-> t]

GetRequest(url, u, t) ==
    [method |-> "GET", url |-> url, uid |-> u, header |-> "", at |-> t]

\* __handle_status returning the report whatever the Errors flag says
HandleStatus_IgnoreFlag(r) ==
    IF r.Status = "Complete" THEN Returned(PyList(r.ValidationReport))
    ELSE IF r.Status \in STATUS_ERRORS THEN RaisedJson(r)
    ELSE Returned(PyNone)

\* __handle_status raising the status label instead of the response JSON
HandleStatus_LabelOnly(r) ==
    IF r.Status = "Complete"
    THEN IF r.Errors THEN Returned(PyList(r.ValidationReport))
                     ELSE Returned(PyList(<<>>))
    ELSE IF r.Status \in STATUS_ERRORS THEN RaisedJson(LabelResponse("Error"))
    ELSE Returned(PyNone)

\* src/utils.py 25-32
HandleStatus(r) ==
    IF r.Status = "Complete"
    THEN IF r.Errors THEN Returned(PyList(r.ValidationReport))
                     ELSE Returned(PyList(<<>>))
    ELSE IF r.Status \in STATUS_ERRORS THEN RaisedJson(r)
    ELSE Returned(PyNone)

\* a port rule that sends every https call to 443
NormalizePort_AnyPort(https, p) == IF https THEN HttpsPort ELSE p

\* src/utils.py 200-207
NormalizePort(https, p) == IF https /\ p = DefaultPort THEN HttpsPort ELSE p

BuildUrl ==
    /\ pc = "L200"
    /\ port' = NormalizePort(use_https, port)
    /\ base_url' = [scheme |-> IF use_https THEN "https" ELSE "http",
                    host |-> host, port |-> port']
    /\ pc' = "L210"
    /\ UNCHANGED <<caller, returned, delimiter, use_https, max_retries, interval_time, response, uid,
                   response_status, timers, now, log, obs, outcome>>

\* a delimiter test that lets any name through except the empty one
DelimiterOk_Lenient(d) == d # ""

\* src/utils.py 210-214
DelimiterOk(d) == d \in ValidDelimiters

CheckDelimiter ==
    /\ pc = "L210"
    /\ IF DelimiterOk(delimiter)
       THEN pc' = "L217" /\ UNCHANGED outcome
       ELSE Finish(Raised("ValueError: Delimiter"))
    /\ UNCHANGED <<caller, returned, args, locals, timers, now, log, obs>>

\* src/utils.py 217-219
Upload ==
    /\ pc = "L217"
    /\ \E r \in UploadResponses, d \in Latencies :
          /\ log' = Append(log, PostRequest(UploadUrl(base_url), delimiter, now))
          /\ response' = r
          /\ now' = now + d
          /\ returned' = Append(returned, now')
    /\ pc' = "L222"
    /\ UNCHANGED <<caller, args, base_url, uid, response_status, timers, obs, outcome>>

\* a status test that is never made
UploadAccepted_Any(r) == TRUE

\* a status test that only rejects server errors
UploadAccepted_Below500(r) == r.status_code < 500

\* src/utils.py 222-229
UploadAccepted(r) == r.status_code = HttpOk

\* response.json().get('uid'): a missing key is no error
HasUid_Lenient(r) == TRUE

\* response.json()['uid'] finds the key
HasUid(r) == r.hasUid

CheckUpload ==
    /\ pc = "L222"
    /\ IF ~UploadAccepted(response)
       THEN Finish(RaisedUpload(response.text, response.status_code)) /\ UNCHANGED uid
       ELSE IF ~HasUid(response)
       THEN Finish(Raised("KeyError: uid")) /\ UNCHANGED uid
       ELSE pc' = "L142" /\ uid' = response.uid /\ UNCHANGED outcome
    /\ UNCHANGED <<caller, returned, args, base_url, response, response_status, timers, now, log, obs>>

\* get_validation_status going straight to its first GET, without the sleep
Sleep_Skipped ==
    /\ pc = "L142"
    /\ IF interval_time < 0
       THEN Finish(Raised("ValueError: sleep"))
       ELSE pc' = "L145" /\ UNCHANGED outcome
    /\ UNCHANGED <<caller, returned, args, locals, timers, now, log, obs>>

\* src/utils.py 142: sleep(interval_time)
Sleep ==
    /\ pc = "L142"
    /\ IF interval_time < 0
       THEN Finish(Raised("ValueError: sleep")) /\ UNCHANGED now
       ELSE /\ \E over \in Latencies : now' = now + interval_time + over
            /\ pc' = "L145" /\ UNCHANGED outcome
    /\ UNCHANGED <<caller, returned, args, locals, timers, log, obs>>

\* response_status.json().get('Status'): a missing key is no error
HasStatus_Lenient(r) == TRUE

\* 'Status' in response_status.json()
HasStatus(r) == r.hasStatus

\* response_status.json()['Status'] in STATUS_IN_PROCESS
InProcess(r) == r.Status \in STATUS_IN_PROCESS

\* get(url=status_url, params={'uid': uid})
StatusGet(next) ==
    /\ \E r \in StatusResponses, d \in Latencies :
          /\ log' = Append(log, GetRequest(StatusUrl(base_url), uid, now))
          /\ response_status' = r
          /\ obs' = Append(obs, r)
          /\ now' = now + d
          /\ returned' = Append(returned, now')
    /\ pc' = next
    /\ UNCHANGED <<caller, args, base_url, response, uid, timers, outcome>>

\* src/utils.py 145-146
FirstGet == pc = "L145" /\ StatusGet("L149")

\* src/utils.py 149-156; a response without 'Status' is a KeyError at line 149
FirstCheck ==
    /\ pc = "L149"
    /\ IF ~HasStatus(response_status)
       THEN Finish(Raised("KeyError: Status"))
       ELSE IF InProcess(response_status)
       THEN pc' = "L63" /\ UNCHANGED outcome
       ELSE Finish(HandleStatus(response_status))
    /\ UNCHANGED <<caller, returned, args, locals, timers, now, log, obs>>

\* src/utils.py 63-73: three reads of the clock, then the timeout
RequestInit ==
    /\ pc = "L63"
    /\ \E d1 \in 0..Eps : \E d2 \in 0..(Eps - d1) :
          /\ start_global' = now
          /\ start' = now + d1
          /\ current' = now + d1 + d2
          /\ now' = now + d1 + d2
    /\ interval_counter' = 0
    /\ timeout' = max_retries * interval_time
    /\ pc' = "L75"
    /\ UNCHANGED <<caller, returned, args, locals, interval, log, obs, outcome>>

\* src/utils.py 75 and 110: the loop test, and the raise after the loop
WhileTest ==
    /\ pc = "L75"
    /\ IF current - start_global < timeout
       THEN pc' = "L76" /\ UNCHANGED outcome
       ELSE Finish(RaisedNum("Timeout", timeout))
    /\ UNCHANGED <<caller, returned, args, locals, timers, now, log, obs>>

\* the wait loop with the clock read hoisted out of it: current never changes
WaitPass_StaleClock ==
    /\ pc = "L76"
    /\ interval' = current - start
    /\ IF current - start_global <= interval_time THEN pc' = "L75" ELSE pc' = "L88"
    /\ UNCHANGED <<caller, returned, args, locals, start_global, start, current,
                   interval_counter, timeout, now, log, obs, outcome>>

\* src/utils.py 76-85: read the clock, go round again until interval_time passed
WaitPass ==
    /\ pc = "L76"
    /\ \E d \in 0..MaxJump :
          /\ now' = now + d
          /\ current' = now'
    /\ interval' = current' - start
    /\ IF current' - start_global <= interval_time THEN pc' = "L75" ELSE pc' = "L88"
    /\ UNCHANGED <<caller, returned, args, locals, start_global, start, interval_counter, timeout,
                   log, obs, outcome>>

\* src/utils.py 88-89
SecondGet == pc = "L88" /\ StatusGet("L92")

\* the inner routine going round again after an in-progress check, instead of
\* returning at line 107
SecondCheck_Reloop ==
    /\ pc = "L92"
    /\ LET inProcess == HasStatus(response_status) /\ InProcess(response_status)
           counted == inProcess /\ interval > interval_time
           counter == IF counted THEN interval_counter + 1 ELSE interval_counter
       IN /\ interval_counter' = counter
          /\ start' = IF counted THEN now ELSE start
          /\ IF ~HasStatus(response_status)
             THEN Finish(Raised("Error: Status not found in response"))
             ELSE IF inProcess /\ counter = max_retries
             THEN Finish(RaisedNum("Error: Max retries exceeded", counter))
             ELSE IF inProcess
             THEN pc' = "L75" /\ UNCHANGED outcome
             ELSE Finish(HandleStatus(response_status))
    /\ UNCHANGED <<caller, returned, args, locals, start_global, current, interval, timeout, now, log, obs>>

\* src/utils.py 92-107
SecondCheck ==
    /\ pc = "L92"
    /\ LET inProcess == HasStatus(response_status) /\ InProcess(response_status)
           counted == inProcess /\ interval > interval_time
           counter == IF counted THEN interval_counter + 1 ELSE interval_counter
       IN /\ interval_counter' = counter
          /\ start' = IF counted THEN now ELSE start
          /\ IF ~HasStatus(response_status)
             THEN Finish(Raised("Error: Status not found in response"))
             ELSE IF inProcess /\ counter = max_retries
             THEN Finish(RaisedNum("Error: Max retries exceeded", counter))
             ELSE Finish(HandleStatus(response_status))
    /\ UNCHANGED <<caller, returned, args, locals, start_global, current, interval, timeout, now, log, obs>>

Next ==
    \/ BuildUrl
    \/ CheckDelimiter
    \/ Upload
    \/ CheckUpload
    \/ Sleep
    \/ FirstGet
    \/ FirstCheck
    \/ RequestInit
    \/ WhileTest
    \/ WaitPass
    \/ SecondGet
    \/ SecondCheck

Spec == Init /\ [][Next]_vars

\* a pass of the wait loop that finds the clock advanced
ClockAdvances == WaitPass /\ now' > now

\* the call keeps running (every request returns, every statement is executed)
\* and the clock keeps advancing: a loop that reads it again and again
\* eventually reads a later time
Fairness == WF_vars(Next) /\ SF_vars(ClockAdvances)

\* the calls that differ in what polling reads: the budget, and a delimiter that
\* passes or fails; the URL arguments only name the server
InitPoll ==
    /\ delimiter \in {"comma", "pipe"}
    /\ use_https = FALSE
    /\ port = DefaultPort
    /\ max_retries \in RetryValues
    /\ interval_time \in IntervalValues
    /\ host = Host
    /\ logs_folder = FALSE
    /\ InitCall

FairSpec == InitPoll /\ [][Next]_vars /\ Fairness

\* ---------------------------------- structural_validation, src/lei_sdmx_pipeline.py
SvHost == "fmr.meaningfuldata.eu"

\* the defaults of validate_data_fmr, which structural_validation leaves alone
DefaultMaxRetries == 10

\* 0.5 s: the shortest interval longer than the clock drift
DefaultInterval == Eps + 1

\* src/lei_sdmx_pipeline.py 126-127: the call with its fixed arguments; the
\* caller gives a logs folder or none
InitSV ==
    /\ delimiter = "comma"
    /\ use_https = TRUE
    /\ port = HttpsPort
    /\ max_retries = DefaultMaxRetries
    /\ interval_time = DefaultInterval
    /\ host = SvHost
    /\ logs_folder \in BOOLEAN
    /\ InitCall

\* src/lei_sdmx_pipeline.py 126-133: an exception of validate_data_fmr goes
\* through; a result is written when a folder was given, and open() or the
\* write may fail with OSError, which nothing catches; then the result is returned
StructuralReturn ==
    /\ pc = "done"
    /\ sv_outcome.kind = "running"
    /\ IF outcome.kind = "raised" \/ ~logs_folder
       THEN sv_outcome' = outcome /\ UNCHANGED written
       ELSE \E ok \in BOOLEAN :
               IF ok
               THEN written' = <<outcome.value>> /\ sv_outcome' = outcome
               ELSE sv_outcome' = Raised("OSError") /\ UNCHANGED written
    /\ UNCHANGED <<pc, args, locals, timers, now, log, obs, outcome, returned,
                   host, requested_port, logs_folder>>

NextSV == Next \/ StructuralReturn

SpecSV == InitSV /\ [][NextSV]_vars

\* ------------------------------------------------------------ type invariant
Done == pc = "done"

Gets == SelectSeq(log, LAMBDA q : q.method = "GET")

Posts == SelectSeq(log, LAMBDA q : q.method = "POST")

TypeOK ==
    /\ pc \in {"L200", "L210", "L217", "L222", "L142", "L145", "L149", "L63",
               "L75", "L76", "L88", "L92", "done"}
    /\ Done <=> outcome.kind # "running"
    /\ Len(Gets) = Len(obs)
    /\ Len(returned) = Len(log)

\* ------------------------------------------------------------------ claims
Last(q) == q[Len(q)]

AllInProcess(q) == \A i \in 1..Len(q) : q[i].hasStatus /\ q[i].Status \in STATUS_IN_PROCESS

IsCleanComplete(r) == r.hasStatus /\ r.Status = "Complete" /\ ~r.Errors

\* the status checks made so far were answered from the sequence
\* [in-progress x n, Complete with Errors false]
Follows(q, n) ==
    /\ Len(q) >= 1 /\ Len(q) <= n + 1
    /\ \A i \in 1..Len(q) :
          IF i <= n THEN q[i].hasStatus /\ q[i].Status \in STATUS_IN_PROCESS
                    ELSE IsCleanComplete(q[i])

CheckPending == pc \in {"L149", "L92"}

\* C1: with max_retries N >= 1 and interval_time T > 0 and only in-progress
\* status responses, get_validation_status ends by raising the timeout failure
\* and has issued at most N status GETs.
C1_AlwaysInProgressTimesOut ==
    (Done /\ max_retries >= 1 /\ interval_time > 0 /\ obs # <<>> /\ AllInProcess(obs))
        => /\ outcome.kind = "raised"
           /\ outcome.exc = "Timeout"
           /\ Len(Gets) <= max_retries

\* C2: with max_retries >= 3 and the status sequence [in-progress, in-progress,
\* Complete with Errors false], get_validation_status returns the empty list
\* after exactly 3 status GETs.
C2_ThirdCheckCompletes ==
    (Done /\ max_retries >= 3 /\ interval_time > 0 /\ Follows(obs, 2))
        => /\ outcome = Returned(PyList(<<>>))
           /\ Len(Gets) = 3

\* C3: get_validation_status never returns normally while the most recently
\* observed status is an in-progress label.
C3_NoReturnWhileInProcess ==
    (Done /\ outcome.kind = "returned" /\ obs # <<>>)
        => ~(Last(obs).hasStatus /\ Last(obs).Status \in STATUS_IN_PROCESS)

\* C4: at whichever status check a response first carries an error label, the
\* call fails at that check with a failure carrying the full response JSON, and
\* no status GET is issued after it.
C4_ErrorLabelFailsAtOnce ==
    \A i \in 1..Len(obs) :
        (obs[i].hasStatus /\ obs[i].Status \in STATUS_ERRORS)
            => /\ i = Len(obs)
               /\ Len(Gets) = i
               /\ CheckPending \/ (Done /\ outcome = RaisedJson(obs[i]))

C4_Witness ==
    /\ Done /\ Len(obs) = 2
    /\ obs[2].hasStatus /\ obs[2].Status \in STATUS_ERRORS
    /\ outcome.kind = "raised" /\ outcome.json = obs[2]

\* C5: upload answered 200 with a uid, first status check in progress, second
\* Complete with Errors false, max_retries >= 2 (and a positive interval_time):
\* validate_data_fmr returns the empty list after exactly 2 status GETs, both
\* carrying that uid.
C5_EndToEndTwoChecks ==
    (/\ Done
     /\ response.status_code = HttpOk /\ response.hasUid
     /\ max_retries >= 2 /\ interval_time > 0
     /\ Follows(obs, 1))
        => /\ outcome = Returned(PyList(<<>>))
           /\ Len(Gets) = 2
           /\ \A i \in 1..Len(Gets) : Gets[i].uid = response.uid

C5_Witness ==
    /\ Done /\ Len(obs) = 2 /\ Follows(obs, 1) /\ max_retries >= 2
    /\ outcome = Returned(PyList(<<>>))
    /\ Gets[1].uid = "abc123" /\ Gets[2].uid = "abc123"

C6_WitnessClean ==
    /\ Done /\ obs # <<>>
    /\ Last(obs).Status = "Complete" /\ ~Last(obs).Errors
    /\ Last(obs).ValidationReport = <<"f2", "f1">>
    /\ outcome.value = PyList(<<>>)

\* C7: with a delimiter among comma, semicolon, tab, space the call never fails
\* with the invalid-delimiter error; with any other delimiter it always fails
\* with that error and issues no HTTP request.
C7_DelimiterGate ==
    /\ delimiter \in ValidDelimiters => outcome.exc # "ValueError: Delimiter"
    /\ delimiter \notin ValidDelimiters =>
          /\ log = <<>>
          /\ pc \in {"L200", "L210"}
                \/ (Done /\ outcome = Raised("ValueError: Delimiter"))

C7_Witness ==
    /\ Done /\ delimiter = "pipe" /\ log = <<>>
    /\ outcome.exc = "ValueError: Delimiter"

C7_WitnessValid == Done /\ delimiter = "space" /\ Len(log) >= 1

\* C8 as stated: an upload response without uid fails with the
\* malformed-response failure whatever its HTTP status, never with the
\* upload-rejected failure.
C8_NoUidAlwaysMalformed ==
    (Done /\ response # NoUpload /\ ~response.hasUid)
        => outcome = Raised("KeyError: uid")

\* C8 amended: an upload response without uid fails with the malformed-response
\* failure when its HTTP status is 200, and with the upload-rejected failure
\* when it is not.
C8_NoUidMalformedOn200 ==
    (Done /\ response # NoUpload /\ ~response.hasUid)
        => IF response.status_code = HttpOk
           THEN outcome = Raised("KeyError: uid")
           ELSE outcome.kind = "raised" /\ outcome.exc = "UploadRejected"

C8_Witness ==
    /\ Done /\ response.status_code = HttpOk /\ ~response.hasUid
    /\ outcome.exc = "KeyError: uid"

\* C9: an upload response whose HTTP status is not 200 makes the call fail with
\* a failure carrying that response's body and status code; exactly one POST and
\* no status GET were issued.
C9_UploadRejected ==
    (response # NoUpload /\ response.status_code # HttpOk)
        => /\ Len(Posts) = 1 /\ Len(Gets) = 0
           /\ pc = "L222"
                \/ (Done /\ outcome = RaisedUpload(response.text, response.status_code))

C9_Witness ==
    /\ Done /\ response.status_code = 404 /\ response.text = "server error"
    /\ outcome.exc = "UploadRejected"
    /\ outcome.text = "server error" /\ outcome.code = 404

\* C10: at the first status check as at a later one, a response without a
\* Status field makes the call fail at that check; no status GET follows it.
C10_MissingStatusFatal ==
    \A i \in 1..Len(obs) :
        ~obs[i].hasStatus
            => /\ i = Len(obs)
               /\ Len(Gets) = i
               /\ CheckPending \/ (Done /\ outcome.kind = "raised")

C10_Witness ==
    /\ Done /\ Len(obs) = 2 /\ ~obs[2].hasStatus
    /\ outcome = Raised("Error: Status not found in response")

C10_WitnessFirst ==
    /\ Done /\ Len(obs) = 1 /\ ~obs[1].hasStatus
    /\ outcome = Raised("KeyError: Status")

\* C11: every status GET comes at least interval_time after what precedes it:
\* the first GET after the return of the upload, whatever the arguments, and
\* each later GET after the GET before it.
C11_WaitBeforeEveryGet ==
    \A i \in 1..Len(log) :
        log[i].method = "GET"
            => /\ i > 1
               /\ IF log[i - 1].method = "POST"
                  THEN log[i].at >= returned[i - 1] + interval_time
                  ELSE log[i].at >= log[i - 1].at + interval_time

C11_Witness ==
    /\ Done /\ interval_time > 0 /\ Len(log) = 3
    /\ log[2].method = "GET" /\ log[2].at = returned[1] + interval_time
    /\ log[3].method = "GET" /\ log[3].at > log[2].at + interval_time

\* the time polling began: get_validation_status is entered when the upload
\* has returned
PollBegan == returned[1]

\* C12: with budget N, interval T and only in-progress status responses, the
\* poll does not end before N * T of clock time has passed since it began.
C12_NoEarlyEnd ==
    (Done /\ max_retries >= 1 /\ interval_time > 0 /\ obs # <<>> /\ AllInProcess(obs))
        => now - PollBegan >= max_retries * interval_time

\* C13: a budget whose max_retries or interval_time is not positive is rejected
\* before any I/O: no POST and no GET is issued for it.
C13_BadBudgetNoIO ==
    (max_retries <= 0 \/ interval_time <= 0) => log = <<>>

\* C14: the URLs use port 443 when use_https is set and port 8080 was
\* requested, and the requested port otherwise; the upload URL and the status
\* URLs of one call have the same scheme, host and port.
C14_PortNormalization ==
    \A i \in 1..Len(log) :
        /\ log[i].url.base.port =
              (IF use_https /\ requested_port = 8080 THEN 443 ELSE requested_port)
        /\ log[i].url.base.scheme = (IF use_https THEN "https" ELSE "http")
        /\ log[i].url.base = log[1].url.base

C14_Witness ==
    /\ Done /\ use_https /\ requested_port = 8080 /\ Len(log) = 3
    /\ log[1].method = "POST" /\ log[1].url.base.port = 443
    /\ log[3].method = "GET" /\ log[3].url.base.port = 443

C14_WitnessUnchanged ==
    /\ Done /\ use_https /\ requested_port = 9000 /\ Len(log) = 3
    /\ log[1].url.base.port = 9000 /\ log[3].url.base.port = 9000

SvDone == sv_outcome.kind # "running"

\* C15: writing the report to the logs folder does not change what
\* structural_validation returns: when validate_data_fmr returned a report,
\* structural_validation returns that report, with no folder, with a write that
\* succeeds and with a write that fails.
C15_PersistKeepsResult ==
    (SvDone /\ outcome.kind = "returned") => sv_outcome = outcome

\* C17: a status response whose label is neither an in-progress label nor an
\* error label is treated as completed: the call returns a findings list, the
\* ValidationReport when the Errors flag is set and the empty list otherwise.
C17_OtherLabelsComplete ==
    (/\ Done /\ obs # <<>> /\ Last(obs).hasStatus
     /\ Last(obs).Status \notin STATUS_IN_PROCESS \cup STATUS_ERRORS)
        => outcome = Returned(PyList(IF Last(obs).Errors
                                     THEN Last(obs).ValidationReport ELSE <<>>))

InRequest == pc \in {"L63", "L75", "L76", "L88"}

\* C18: __validation_status_request issues at most one status GET and ends at
\* the check of that GET, in progress or not; one call of validate_data_fmr
\* issues at most 2 status GETs.
C18_OneGetPerRequest ==
    /\ Len(Gets) <= 2
    /\ InRequest => Len(Gets) = 1
    /\ Len(Gets) = 2 => pc \in {"L92", "done"}

C18_Witness ==
    /\ Done /\ Len(Gets) = 2 /\ AllInProcess(obs) /\ max_retries >= 3
    /\ outcome = Returned(PyNone)

IsTerminal(r) == r.hasStatus /\ r.Status \in STATUS_COMPLETED \cup STATUS_ERRORS

\* C19: the requests of one call are sequential: one POST, first, answered 200
\* before any status GET; every GET carries the uid of that POST; a request is
\* issued only when the one before it has returned; after a check that observes
\* Complete or an error label no further GET is issued and the call ends.
C19_Sequential ==
    /\ \A i \in 1..Len(log) :
          /\ (log[i].method = "POST") <=> (i = 1)
          /\ i > 1 => /\ log[i].at >= returned[i - 1]
                      /\ response.status_code = 200 /\ response.hasUid
                      /\ log[i].uid = response.uid
    /\ \A i \in 1..Len(obs) :
          IsTerminal(obs[i]) => i = Len(obs) /\ (CheckPending \/ Done)

C19_Witness ==
    /\ Done /\ Len(log) = 3 /\ IsTerminal(obs[2])
    /\ log[1].method = "POST" /\ log[2].uid = "abc123" /\ log[3].uid = "abc123"
    /\ log[3].at >= returned[2]

\* C20: with max_retries >= 0 and interval_time > 0, whatever the server
\* answers, every call of validate_data_fmr eventually ends, given that requests
\* return and the clock keeps advancing.
C20_Terminates == (max_retries >= 0 /\ interval_time > 0) => <>Done

C20_Witness ==
    /\ Done /\ max_retries >= 1 /\ interval_time > 0 /\ Len(Gets) = 2
    /\ current - start_global > interval_time
====
